---- MODULE Spec2Model ----
(***************************************************************************)
(* Payluk escrow inline checkout SDK (src/src/index.ts, lines 1-264).      *)
(*                                                                         *)
(* State: the module-level CONFIG, the page's window object (the widget    *)
(* globals and window.__escrowCheckoutLoader), the script elements added   *)
(* to the document, and one record per pay(...) call.                      *)
(*                                                                         *)
(* One action is one run of JavaScript to its next suspension point: a     *)
(* call of initEscrowCheckout, the synchronous start of pay (validation,   *)
(* createSession up to its fetch, loadWidget up to its return), the        *)
(* arrival of a response or transport error, the end of a body read, the   *)
(* load or error event of a script element, and the resumption of pay      *)
(* after its await.                                                        *)
(*                                                                         *)
(* Environment: hasWindow says whether `window` is defined.  A defined     *)
(* window is a browser window: document.createElement and                  *)
(* document.head.appendChild complete normally.                            *)
(***************************************************************************)
EXTENDS Naturals, Sequences, FiniteSets, TLC

\* Number of pay(...) calls of one run.
MaxCalls == 2

(***************************************************************************)
(* JavaScript values, tagged with their typeof.  A string is a sequence of *)
(* pieces: the public keys and the required pay fields are spelled out one *)
(* character a piece, so that trim() and startsWith() are computed.        *)
(***************************************************************************)
Str(s) == [type |-> "string", val |-> s]
Undefined == [type |-> "undefined", val |-> <<>>]
NotAString == [type |-> "number", val |-> <<>>]

\* String.prototype.trim() strips these from both ends.
IsSpace(c) == c \in {" ", "\t", "\n"}

RECURSIVE TrimStart(_)
TrimStart(s) ==
    IF s = <<>> THEN s
    ELSE IF IsSpace(Head(s)) THEN TrimStart(Tail(s)) ELSE s

RECURSIVE TrimEnd(_)
TrimEnd(s) ==
    IF s = <<>> THEN s
    ELSE IF IsSpace(s[Len(s)]) THEN TrimEnd(SubSeq(s, 1, Len(s) - 1)) ELSE s

Trim(s) == TrimEnd(TrimStart(s))

StartsWith(s, p) == Len(s) >= Len(p) /\ SubSeq(s, 1, Len(p)) = p

isNonEmptyString(value) == value.type = "string" /\ Len(Trim(value.val)) > 0

\* `a || b` on strings: the empty string and undefined are falsy.
OrElse(a, b) == IF a.type = "string" /\ a.val # <<>> THEN a.val ELSE b

\* `a ?? b`: only undefined (or null) is replaced.
Coalesce(a, b) == IF a.type = "undefined" THEN b ELSE a.val

(***************************************************************************)
(* Program constants.                                                      *)
(***************************************************************************)
DEFAULT_SCRIPT_URL == <<"https://checkout.payluk.ng/escrow-checkout.min.js">>
DEFAULT_GLOBAL_NAME == <<"EscrowCheckout">>
DEFAULT_CROSS_ORIGIN == <<"anonymous">>
LIVE_PREFIX == <<"p", "k", "_", "l", "i", "v", "e", "_">>
LIVE_BASE_URL == <<"https://live.payluk.ng">>
STAGING_BASE_URL == <<"https://staging.live.payluk.ng">>

\* The overrides an expert may pass to initEscrowCheckout.
OTHER_SCRIPT_URL == <<"https://cdn.example/widget.js">>
OTHER_GLOBAL_NAME == <<"AltCheckout">>

ScriptUrls == {DEFAULT_SCRIPT_URL, OTHER_SCRIPT_URL}
GlobalNames == {DEFAULT_GLOBAL_NAME, OTHER_GLOBAL_NAME}

(***************************************************************************)
(* Errors.  EscrowCheckoutError carries a taxonomy code; anything else     *)
(* thrown by the runtime or by foreign code is a raw Error.                *)
(***************************************************************************)
ErrorCodes ==
    {"NOT_INITIALIZED", "BROWSER_ONLY", "INVALID_INPUT", "WIDGET_LOAD",
     "NETWORK", "SESSION_CREATE", "SESSION_RESPONSE"}

NoStatus == <<>>

EscrowCheckoutError(message, code, status) ==
    [name |-> "EscrowCheckoutError", code |-> code, status |-> status,
     message |-> message]

\* An error that is not an EscrowCheckoutError: it has no code.
RawError(message) ==
    [name |-> "Error", code |-> "", status |-> NoStatus, message |-> message]

NoError == [name |-> "", code |-> "", status |-> NoStatus, message |-> <<>>]

(***************************************************************************)
(* Promise states.                                                         *)
(***************************************************************************)
NoValue == Undefined
Pending == [st |-> "pending", value |-> NoValue, err |-> NoError]
Fulfilled(v) == [st |-> "fulfilled", value |-> v, err |-> NoError]
Rejected(e) == [st |-> "rejected", value |-> NoValue, err |-> e]

\* A callable published under window[name].
Fn(name) == [type |-> "function", val |-> name]
IsFunction(v) == v.type = "function"

(***************************************************************************)
(* Configuration store.                                                    *)
(***************************************************************************)
Null ==
    [set |-> FALSE, publicKey |-> <<>>, scriptUrl |-> <<>>,
     globalName |-> <<>>, crossOrigin |-> <<>>]

\* Mutant: the key is stored as given.
ResolvedConfigNoTrim(config) ==
    [set |-> TRUE,
     publicKey |-> config.publicKey.val,
     scriptUrl |-> OrElse(config.scriptUrlOverride, DEFAULT_SCRIPT_URL),
     globalName |-> OrElse(config.globalName, DEFAULT_GLOBAL_NAME),
     crossOrigin |-> Coalesce(config.crossOrigin, DEFAULT_CROSS_ORIGIN)]

\* The object literal initEscrowCheckout assigns to CONFIG.
ResolvedConfig(config) ==
    [set |-> TRUE,
     publicKey |-> Trim(config.publicKey.val),
     scriptUrl |-> OrElse(config.scriptUrlOverride, DEFAULT_SCRIPT_URL),
     globalName |-> OrElse(config.globalName, DEFAULT_GLOBAL_NAME),
     crossOrigin |-> Coalesce(config.crossOrigin, DEFAULT_CROSS_ORIGIN)]

InitConfig(key, url, name, co) ==
    [publicKey |-> key, scriptUrlOverride |-> url, globalName |-> name,
     crossOrigin |-> co]

KEY_TEST == <<"p", "k", "_", "t", "e", "s", "t", "_", "1">>
KEY_LIVE == <<"p", "k", "_", "l", "i", "v", "e", "_", "1">>

\* The configurations the application passes to initEscrowCheckout in the
\* concurrent runs: the defaults, another key and global name for the same
\* script, and another script.
InitInputs ==
    {InitConfig(Str(KEY_TEST), Undefined, Undefined, Undefined),
     InitConfig(Str(<<" ">> \o KEY_LIVE \o <<" ">>), Str(<<>>),
                Str(OTHER_GLOBAL_NAME), Undefined),
     InitConfig(Str(KEY_TEST), Str(OTHER_SCRIPT_URL), Undefined, Str(<<>>))}

(***************************************************************************)
(* Pay inputs.                                                             *)
(***************************************************************************)
NoExtra == [type |-> "undefined", fields |-> <<>>]
Extra(fields) == [type |-> "object", fields |-> fields]

PayInput(paymentToken, reference, redirectUrl, brand, customerId, extra) ==
    [type |-> "object", paymentToken |-> paymentToken,
     reference |-> reference, redirectUrl |-> redirectUrl,
     logoUrl |-> Undefined, brand |-> brand, customerId |-> customerId,
     callback |-> Undefined, onClose |-> Undefined, extra |-> extra]

\* pay(undefined) or pay(null): every property read gives undefined.
NullInput ==
    [type |-> "undefined", paymentToken |-> Undefined,
     reference |-> Undefined, redirectUrl |-> Undefined,
     logoUrl |-> Undefined, brand |-> Undefined, customerId |-> Undefined,
     callback |-> Undefined, onClose |-> Undefined, extra |-> NoExtra]

TOKEN == Str(<<"t", "o", "k">>)
REF == Str(<<"r", "e", "f">>)
REDIRECT == Str(<<"h", "t", "t", "p", "s", ":", "/", "/", "x">>)
BLANK == Str(<<" ">>)
EMPTY == Str(<<>>)

PlainInput == PayInput(TOKEN, REF, REDIRECT, Undefined, Undefined, NoExtra)

\* A call whose extra names a new field and each of the built-in ones.
ExtraInput ==
    PayInput(TOKEN, REF, REDIRECT, Str(<<"Acme">>), Str(<<"cust-1">>),
             Extra([theme |-> Str(<<"dark">>), brand |-> Str(<<"Other">>),
                    session |-> Str(<<"mine">>), logoUrl |-> Str(<<"logo">>),
                    callback |-> Fn(<<"cb">>), onClose |-> Fn(<<"close">>),
                    customerId |-> Undefined,
                    publicKey |-> Str(<<"pk_other">>)]))

\* The inputs of the concurrent runs.
PayInputs ==
    {PlainInput, PayInput(EMPTY, REF, REDIRECT, Undefined, Undefined, NoExtra)}

(***************************************************************************)
(* Session endpoint responses.  A body is its text; JSONParse is what      *)
(* JSON.parse gives for it.                                                *)
(***************************************************************************)
BODY_EMPTY == <<>>
BODY_HTML == <<"<html>Bad gateway</html>">>
BODY_MESSAGE == <<"{\"message\":\"Bad request\"}">>
BODY_MESSAGE_NUMBER == <<"{\"message\":42}">>
BODY_OBJECT == <<"{}">>
BODY_NULL == <<"null">>
BODY_SESSION_1 == <<"{\"session\":\"s1\"}">>
BODY_SESSION_2 == <<"{\"session\":\"s2\",\"message\":\"ok\"}">>

JsonObject(fields) == [ok |-> TRUE, type |-> "object", fields |-> fields]
JsonNull == [ok |-> TRUE, type |-> "null", fields |-> <<>>]
SyntaxError == [ok |-> FALSE, type |-> "", fields |-> <<>>]

JSONParse(text) ==
    CASE text = BODY_MESSAGE ->
            JsonObject([message |-> Str(<<"Bad request">>)])
      [] text = BODY_MESSAGE_NUMBER -> JsonObject([message |-> NotAString])
      [] text = BODY_OBJECT -> JsonObject(<<>>)
      [] text = BODY_NULL -> JsonNull
      [] text = BODY_SESSION_1 -> JsonObject([session |-> Str(<<"s1">>)])
      [] text = BODY_SESSION_2 ->
            JsonObject([session |-> Str(<<"s2">>), message |-> Str(<<"ok">>)])
      [] OTHER -> SyntaxError

\* json[name], undefined when the object has no such property.
Get(json, name) ==
    IF json.type = "object" /\ name \in DOMAIN json.fields
    THEN json.fields[name]
    ELSE Undefined

Response(status, body) == [status |-> status, body |-> body]
NoResponse == Response(0, <<>>)

\* Response.ok
Ok(resp) == resp.status >= 200 /\ resp.status <= 299

\* The responses of the concurrent runs.
Responses == {Response(200, BODY_SESSION_1), Response(400, BODY_MESSAGE)}

(***************************************************************************)
(* The wider input sets of the single-call runs.                           *)
(***************************************************************************)
AllInitInputs ==
    InitInputs \cup
    {InitConfig(Str(KEY_TEST), Undefined, Str(OTHER_GLOBAL_NAME),
                Str(<<"use-credentials">>)),
     InitConfig(Str(<<"\n">> \o KEY_TEST \o <<"\t", " ">>),
                Str(OTHER_SCRIPT_URL), Str(<<>>), Undefined),
     InitConfig(Str(<<"x">> \o KEY_LIVE), Undefined, Undefined, Undefined),
     InitConfig(Str(<<"p", "k", "_", "l", "i", "v", "e">>), Undefined,
                Undefined, Undefined),
     InitConfig(Str(<<" ", "\t">>), Undefined, Undefined, Undefined),
     InitConfig(Str(<<>>), Str(OTHER_SCRIPT_URL), Undefined, Undefined),
     InitConfig(Undefined, Undefined, Str(OTHER_GLOBAL_NAME), Undefined),
     InitConfig(NotAString, Undefined, Undefined, Undefined)}

AllPayInputs ==
    {PayInput(t, r, u, Undefined, Undefined, NoExtra) :
        t \in {TOKEN, BLANK, Undefined},
        r \in {REF, EMPTY, NotAString},
        u \in {REDIRECT, BLANK, Undefined}}
    \cup {NullInput, ExtraInput}

AllResponses ==
    Responses \cup
    {Response(201, BODY_SESSION_2), Response(200, BODY_HTML),
     Response(200, BODY_OBJECT), Response(200, BODY_NULL),
     Response(500, BODY_HTML), Response(503, BODY_EMPTY),
     Response(404, BODY_MESSAGE_NUMBER), Response(422, BODY_OBJECT)}

VARIABLES
    hasWindow,   \* typeof window !== 'undefined'
    CONFIG,      \* the module-level CONFIG
    initError,   \* what the last initEscrowCheckout call threw, if anything
    hook,        \* the state of one useEscrowCheckout() instance
    globals,     \* window[name] for the widget's global names
    loader,      \* window.__escrowCheckoutLoader
    scripts,     \* the script elements appended to document.head, per src
    calls        \* the pay(...) calls, in the order they were made

vars == <<hasWindow, CONFIG, initError, hook, globals, loader, scripts, calls>>

\* No entry of window.__escrowCheckoutLoader.
Absent == [st |-> "absent", value |-> NoValue, err |-> NoError]

\* `event` is the event the element fired last: "load", "error", or "none".
NoScript ==
    [count |-> 0, crossOrigin |-> Undefined, globalName |-> <<>>,
     loading |-> FALSE, event |-> "none", cacheAtAppend |-> "none"]

\* useState(false), useState(false), useState(null); `running` holds the
\* calls of the hook's pay that are at their `await corePay(input)`.
HookInit == [ready |-> FALSE, loading |-> FALSE, error |-> NoError, running |-> {}]

Init ==
    /\ hasWindow \in BOOLEAN
    /\ CONFIG = Null
    /\ initError = NoError
    /\ hook = HookInit
    /\ globals = [n \in GlobalNames |-> Undefined]
    /\ loader = [u \in ScriptUrls |-> Absent]
    /\ scripts = [u \in ScriptUrls |-> NoScript]
    /\ calls = <<>>

(***************************************************************************)
(* initEscrowCheckout(config)                                              *)
(***************************************************************************)
\* Mutant: a re-initialization keeps the stored value of every override the
\* new call omits.
initEscrowCheckoutMerge(config) ==
    /\ IF ~isNonEmptyString(config.publicKey)
       THEN /\ initError' =
                  EscrowCheckoutError(<<"initEscrowCheckout(...) requires \"publicKey\".">>,
                                      "INVALID_INPUT", NoStatus)
            /\ UNCHANGED CONFIG
       ELSE /\ CONFIG' =
                  IF CONFIG.set
                  THEN [set |-> TRUE,
                        publicKey |-> Trim(config.publicKey.val),
                        scriptUrl |-> OrElse(config.scriptUrlOverride,
                                             CONFIG.scriptUrl),
                        globalName |-> OrElse(config.globalName,
                                              CONFIG.globalName),
                        crossOrigin |-> Coalesce(config.crossOrigin,
                                                 CONFIG.crossOrigin)]
                  ELSE ResolvedConfig(config)
            /\ initError' = NoError
    /\ UNCHANGED <<hasWindow, hook, globals, loader, scripts, calls>>

\* Mutant: a re-initialization that changes the script URL drops the loader
\* cache.
initEscrowCheckoutClearsCache(config) ==
    /\ IF ~isNonEmptyString(config.publicKey)
       THEN /\ initError' =
                  EscrowCheckoutError(<<"initEscrowCheckout(...) requires \"publicKey\".">>,
                                      "INVALID_INPUT", NoStatus)
            /\ UNCHANGED <<CONFIG, loader>>
       ELSE /\ CONFIG' = ResolvedConfig(config)
            /\ initError' = NoError
            /\ loader' = IF CONFIG.set /\ CONFIG'.scriptUrl # CONFIG.scriptUrl
                         THEN [u \in ScriptUrls |-> Absent]
                         ELSE loader
    /\ UNCHANGED <<hasWindow, hook, globals, scripts, calls>>

\* Mutant: a rejected configuration clears the stored one.
initEscrowCheckoutResets(config) ==
    /\ IF ~isNonEmptyString(config.publicKey)
       THEN /\ initError' =
                  EscrowCheckoutError(<<"initEscrowCheckout(...) requires \"publicKey\".">>,
                                      "INVALID_INPUT", NoStatus)
            /\ CONFIG' = Null
       ELSE /\ CONFIG' = ResolvedConfig(config)
            /\ initError' = NoError
    /\ UNCHANGED <<hasWindow, hook, globals, loader, scripts, calls>>

initEscrowCheckout(config) ==
    /\ IF ~isNonEmptyString(config.publicKey)
       THEN /\ initError' =
                  EscrowCheckoutError(<<"initEscrowCheckout(...) requires \"publicKey\".">>,
                                      "INVALID_INPUT", NoStatus)
            /\ UNCHANGED CONFIG
       ELSE /\ CONFIG' = ResolvedConfig(config)
            /\ initError' = NoError
    /\ UNCHANGED <<hasWindow, hook, globals, loader, scripts, calls>>

(***************************************************************************)
(* loadWidget(): the run from its call to its return.  It gives the        *)
(* promise it returns and what it leaves in window.__escrowCheckoutLoader  *)
(* and in the document.                                                    *)
(***************************************************************************)
NotInitialized ==
    EscrowCheckoutError(
        <<"Escrow checkout not initialized. Call initEscrowCheckout({ publicKey }) first.">>,
        "NOT_INITIALIZED", NoStatus)

\* Mutant: the loader cache is never consulted.
CacheHitNever(ldr, scriptUrl) == FALSE

\* Mutant: a failed entry counts as a miss, so a failed load is retried.
CacheHitUnlessFailed(ldr, scriptUrl) ==
    ldr[scriptUrl].st \notin {"absent", "rejected"}

\* if (win.__escrowCheckoutLoader[scriptUrl])
CacheHit(ldr, scriptUrl) == ldr[scriptUrl].st # "absent"

\* The executor of the new promise: the script element it appends.  The
\* executor runs inside `new Promise(...)`, so before the assignment that
\* stores the promise: `entry` is what the cache holds for the URL as
\* appendChild runs.
InjectScript(script, config, entry) ==
    [count |-> script.count + 1,
     crossOrigin |-> IF config.crossOrigin # <<>>
                     THEN Str(config.crossOrigin)
                     ELSE Undefined,
     globalName |-> config.globalName,
     loading |-> TRUE,
     event |-> "none",
     cacheAtAppend |-> entry.st]

\* Mutant: window[globalName] is looked at before the loader cache.
loadWidgetGlobalFirst(config, window, glb, ldr, scr) ==
    IF IsFunction(glb[config.globalName])
    THEN [ret |-> Fulfilled(glb[config.globalName]),
          loader |-> [ldr EXCEPT ![config.scriptUrl] =
                          Fulfilled(glb[config.globalName])],
          scripts |-> scr]
    ELSE IF CacheHit(ldr, config.scriptUrl)
    THEN [ret |-> ldr[config.scriptUrl], loader |-> ldr, scripts |-> scr]
    ELSE [ret |-> Pending,
          loader |-> [ldr EXCEPT ![config.scriptUrl] = Pending],
          scripts |-> [scr EXCEPT ![config.scriptUrl] =
                           InjectScript(scr[config.scriptUrl], config,
                                        ldr[config.scriptUrl])]]

\* Mutant: a widget found in window[globalName] is returned but not cached.
loadWidgetNoStore(config, window, glb, ldr, scr) ==
    IF CacheHit(ldr, config.scriptUrl)
    THEN [ret |-> ldr[config.scriptUrl], loader |-> ldr, scripts |-> scr]
    ELSE IF IsFunction(glb[config.globalName])
    THEN [ret |-> Fulfilled(glb[config.globalName]), loader |-> ldr,
          scripts |-> scr]
    ELSE [ret |-> Pending,
          loader |-> [ldr EXCEPT ![config.scriptUrl] = Pending],
          scripts |-> [scr EXCEPT ![config.scriptUrl] =
                           InjectScript(scr[config.scriptUrl], config,
                                        ldr[config.scriptUrl])]]

\* Mutant: on a miss the script is injected and the promise returned, but
\* not stored.
loadWidgetInjectNoStore(config, window, glb, ldr, scr) ==
    IF CacheHit(ldr, config.scriptUrl)
    THEN [ret |-> ldr[config.scriptUrl], loader |-> ldr, scripts |-> scr]
    ELSE IF IsFunction(glb[config.globalName])
    THEN [ret |-> Fulfilled(glb[config.globalName]),
          loader |-> [ldr EXCEPT ![config.scriptUrl] =
                          Fulfilled(glb[config.globalName])],
          scripts |-> scr]
    ELSE [ret |-> Pending,
          loader |-> ldr,
          scripts |-> [scr EXCEPT ![config.scriptUrl] =
                           InjectScript(scr[config.scriptUrl], config,
                                        ldr[config.scriptUrl])]]

loadWidget(config, window, glb, ldr, scr) ==
    IF ~config.set
    THEN [ret |-> Rejected(NotInitialized), loader |-> ldr, scripts |-> scr]
    ELSE IF ~window
    THEN [ret |-> Rejected(EscrowCheckoutError(
                      <<"EscrowCheckout can only be loaded in the browser.">>,
                      "BROWSER_ONLY", NoStatus)),
          loader |-> ldr, scripts |-> scr]
    ELSE IF CacheHit(ldr, config.scriptUrl)
    THEN [ret |-> ldr[config.scriptUrl], loader |-> ldr, scripts |-> scr]
    ELSE IF IsFunction(glb[config.globalName])
    THEN [ret |-> Fulfilled(glb[config.globalName]),
          loader |-> [ldr EXCEPT ![config.scriptUrl] =
                          Fulfilled(glb[config.globalName])],
          scripts |-> scr]
    ELSE [ret |-> Pending,
          loader |-> [ldr EXCEPT ![config.scriptUrl] = Pending],
          scripts |-> [scr EXCEPT ![config.scriptUrl] =
                           InjectScript(scr[config.scriptUrl], config,
                                        ldr[config.scriptUrl])]]

(***************************************************************************)
(* createSession(input): the request it sends, and what it makes of the    *)
(* response.                                                               *)
(***************************************************************************)
\* Mutant: the prefix is compared without its last character.
ApiBaseUrlShortPrefix(publicKey) ==
    IF StartsWith(publicKey, SubSeq(LIVE_PREFIX, 1, Len(LIVE_PREFIX) - 1))
    THEN LIVE_BASE_URL
    ELSE STAGING_BASE_URL

ApiBaseUrl(publicKey) ==
    IF StartsWith(publicKey, LIVE_PREFIX)
    THEN LIVE_BASE_URL
    ELSE STAGING_BASE_URL

SessionRequest(config, input) ==
    [url |-> ApiBaseUrl(config.publicKey) \o <<"/v1/checkout/session">>,
     method |-> "POST",
     body |-> [paymentToken |-> input.paymentToken,
               redirectUrl |-> input.redirectUrl,
               reference |-> input.reference,
               customerId |-> input.customerId,
               publicKey |-> Str(config.publicKey)]]

\* catch (error) around fetch
NetworkError ==
    EscrowCheckoutError(<<"Network error while creating checkout session.">>,
                        "NETWORK", NoStatus)

\* parseErrorBody(resp), once resp.text() has given `text`: its message.
parseErrorBody(text) ==
    IF text = <<>> THEN Undefined
    ELSE IF JSONParse(text).ok
    THEN IF Get(JSONParse(text), "message").type = "string"
         THEN Get(JSONParse(text), "message")
         ELSE Undefined
    ELSE Str(text)

\* The error createSession throws for a response that is not ok.
SessionCreateError(resp) ==
    EscrowCheckoutError(
        OrElse(parseErrorBody(resp.body),
               <<"Failed to create session (HTTP ", ToString(resp.status), ").">>),
        "SESSION_CREATE", <<resp.status>>)

\* catch around resp.json() in parseJsonResponse
InvalidJsonError(resp) ==
    EscrowCheckoutError(<<"Invalid JSON response from session endpoint.">>,
                        "SESSION_RESPONSE", <<resp.status>>)

\* Mutant: any parsed object counts as a session response.
isSessionResponseAnyObject(value) == value.ok /\ value.type = "object"

isSessionResponse(value) ==
    value.ok /\ value.type = "object" /\ "session" \in DOMAIN value.fields

\* Mutant: the session is read from a property the body does not have.
SessionOutcomeWrongField(resp) ==
    IF ~JSONParse(resp.body).ok THEN Rejected(InvalidJsonError(resp))
    ELSE IF ~isSessionResponse(JSONParse(resp.body))
    THEN Rejected(EscrowCheckoutError(<<"Session response missing \"session\".">>,
                                      "SESSION_RESPONSE", <<resp.status>>))
    ELSE Fulfilled(Get(JSONParse(resp.body), "sessionId"))

\* createSession after resp.json() has given the parsed body.
SessionOutcome(resp) ==
    IF ~JSONParse(resp.body).ok THEN Rejected(InvalidJsonError(resp))
    ELSE IF ~isSessionResponse(JSONParse(resp.body))
    THEN Rejected(EscrowCheckoutError(<<"Session response missing \"session\".">>,
                                      "SESSION_RESPONSE", <<resp.status>>))
    ELSE Fulfilled(Get(JSONParse(resp.body), "session"))

(***************************************************************************)
(* pay(input)                                                              *)
(***************************************************************************)
InvalidInput(field) ==
    EscrowCheckoutError(<<"pay(...) requires \"", field, "\".">>,
                        "INVALID_INPUT", NoStatus)

\* Mutant: redirectUrl is checked before reference.
PayPreconditionReordered(window, config, input) ==
    IF ~window
    THEN EscrowCheckoutError(<<"pay(...) can only run in the browser.">>,
                             "BROWSER_ONLY", NoStatus)
    ELSE IF ~config.set THEN NotInitialized
    ELSE IF input.type = "undefined" \/ ~isNonEmptyString(input.paymentToken)
    THEN InvalidInput("paymentToken")
    ELSE IF ~isNonEmptyString(input.redirectUrl)
    THEN InvalidInput("redirectUrl")
    ELSE IF ~isNonEmptyString(input.reference) THEN InvalidInput("reference")
    ELSE NoError

\* Mutant: the input is validated before the configuration is asserted.
PayPreconditionInputFirst(window, config, input) ==
    IF ~window
    THEN EscrowCheckoutError(<<"pay(...) can only run in the browser.">>,
                             "BROWSER_ONLY", NoStatus)
    ELSE IF input.type = "undefined" \/ ~isNonEmptyString(input.paymentToken)
    THEN InvalidInput("paymentToken")
    ELSE IF ~isNonEmptyString(input.reference) THEN InvalidInput("reference")
    ELSE IF ~isNonEmptyString(input.redirectUrl)
    THEN InvalidInput("redirectUrl")
    ELSE IF ~config.set THEN NotInitialized
    ELSE NoError

\* The checks before Promise.all: the error thrown, NoError when none is.
PayPrecondition(window, config, input) ==
    IF ~window
    THEN EscrowCheckoutError(<<"pay(...) can only run in the browser.">>,
                             "BROWSER_ONLY", NoStatus)
    ELSE IF ~config.set THEN NotInitialized
    ELSE IF input.type = "undefined" \/ ~isNonEmptyString(input.paymentToken)
    THEN InvalidInput("paymentToken")
    ELSE IF ~isNonEmptyString(input.reference) THEN InvalidInput("reference")
    ELSE IF ~isNonEmptyString(input.redirectUrl)
    THEN InvalidInput("redirectUrl")
    ELSE NoError

\* Mutant: the join does not wait for the session (Promise.race-like).
PromiseAllEager(all, session, widget) ==
    IF all.st # "pending" THEN all
    ELSE IF session.st = "rejected" THEN Rejected(session.err)
    ELSE IF widget.st = "rejected" THEN Rejected(widget.err)
    ELSE IF widget.st = "fulfilled" THEN Fulfilled(Undefined)
    ELSE Pending

\* Mutant: the join waits for both to settle and reports the session's error
\* before the widget's (Promise.allSettled, then a look at each result).
PromiseAllSettled(all, session, widget) ==
    IF all.st # "pending" THEN all
    ELSE IF session.st = "pending" \/ widget.st = "pending" THEN Pending
    ELSE IF session.st = "rejected" THEN Rejected(session.err)
    ELSE IF widget.st = "rejected" THEN Rejected(widget.err)
    ELSE Fulfilled(Undefined)

\* Mutant: the join reports nothing until both branches have succeeded.
PromiseAllIgnoresFailure(all, session, widget) ==
    IF all.st # "pending" THEN all
    ELSE IF session.st = "fulfilled" /\ widget.st = "fulfilled"
    THEN Fulfilled(Undefined)
    ELSE Pending

\* Promise.all([session, widget]) as it stands after one of the two changed.
PromiseAll(all, session, widget) ==
    IF all.st # "pending" THEN all
    ELSE IF session.st = "rejected" THEN Rejected(session.err)
    ELSE IF widget.st = "rejected" THEN Rejected(widget.err)
    ELSE IF session.st = "fulfilled" /\ widget.st = "fulfilled"
    THEN Fulfilled(Undefined)
    ELSE Pending

\* Mutant: the named fields are merged on top of extra.
SpreadFirstWins(a, b) ==
    [n \in DOMAIN a \cup DOMAIN b |-> IF n \in DOMAIN a THEN a[n] ELSE b[n]]

\* {...a, ...b}
Spread(a, b) ==
    [n \in DOMAIN a \cup DOMAIN b |-> IF n \in DOMAIN b THEN b[n] ELSE a[n]]

\* The argument of widget({...}).
WidgetOptions(session, input, config) ==
    Spread([session |-> session,
            logoUrl |-> input.logoUrl,
            brand |-> input.brand,
            callback |-> input.callback,
            onClose |-> input.onClose,
            customerId |-> input.customerId,
            publicKey |-> Str(config.publicKey)],
           IF input.extra.type = "undefined" THEN <<>> ELSE input.extra.fields)

(***************************************************************************)
(* One pay(...) call: its argument, the request createSession sent, the    *)
(* script URL and global name loadWidget read from CONFIG, where           *)
(* createSession stands and the response it holds, the promises of         *)
(* createSession() and loadWidget(), Promise.all of the two, the branches  *)
(* that have failed (first to fail first), the promise pay returned and    *)
(* the widget invocations it made.                                         *)
(***************************************************************************)
Call(input, requests, scriptUrl, globalName, widget, result) ==
    [input |-> input,
     requests |-> requests,
     globalName |-> globalName,
     at |-> IF requests = <<>> THEN "done" ELSE "fetch",
     resp |-> NoResponse,
     session |-> Pending,
     scriptUrl |-> scriptUrl,
     widget |-> widget,
     all |-> PromiseAll(Pending, Pending, widget),
     failed |-> IF widget.st = "rejected" THEN <<"widget">> ELSE <<>>,
     result |-> result,
     invoked |-> <<>>]

\* createSession's promise settles.
SettleSession(call, outcome) ==
    [call EXCEPT !.session = outcome,
                 !.at = "done",
                 !.all = PromiseAll(call.all, outcome, call.widget),
                 !.failed = IF outcome.st = "rejected"
                            THEN Append(@, "session")
                            ELSE @]

\* loadWidget's promise settles with the loader entry it follows.
SettleWidget(call, outcome) ==
    [call EXCEPT !.widget = outcome,
                 !.all = PromiseAll(call.all, call.session, outcome),
                 !.failed = IF outcome.st = "rejected"
                            THEN Append(@, "widget")
                            ELSE @]

\* Mutant: the widget load is started before the input is validated.
corePayLoadsFirst(input) ==
    /\ Len(calls) < MaxCalls
    /\ LET lw == loadWidget(CONFIG, hasWindow, globals, loader, scripts)
       IN  /\ calls' = Append(calls,
                  IF PayPrecondition(hasWindow, CONFIG, input) # NoError
                  THEN Call(input, <<>>, <<>>, <<>>, Pending,
                            Rejected(PayPrecondition(hasWindow, CONFIG, input)))
                  ELSE Call(input, <<SessionRequest(CONFIG, input)>>,
                            CONFIG.scriptUrl, CONFIG.globalName, lw.ret,
                            Pending))
           /\ loader' = lw.loader
           /\ scripts' = lw.scripts
    /\ UNCHANGED <<hasWindow, CONFIG, initError, globals>>

\* pay(input), from the call to `await Promise.all([...])`: what it does to
\* the page and the library.
corePay(input) ==
    /\ Len(calls) < MaxCalls
    /\ IF PayPrecondition(hasWindow, CONFIG, input) # NoError
       THEN /\ calls' = Append(calls,
                   Call(input, <<>>, <<>>, <<>>, Pending,
                        Rejected(PayPrecondition(hasWindow, CONFIG, input))))
            /\ UNCHANGED <<loader, scripts>>
       ELSE LET lw == loadWidget(CONFIG, hasWindow, globals, loader, scripts)
            IN /\ calls' = Append(calls,
                      Call(input, <<SessionRequest(CONFIG, input)>>,
                           CONFIG.scriptUrl, CONFIG.globalName, lw.ret,
                           Pending))
               /\ loader' = lw.loader
               /\ scripts' = lw.scripts
    /\ UNCHANGED <<hasWindow, CONFIG, initError, globals>>

\* The application calls pay(input) of the library.
pay(input) == corePay(input) /\ UNCHANGED hook

\* The application calls the pay of the hook: setLoading(true), then corePay
\* up to its first await.
hookPay(input) ==
    /\ corePay(input)
    /\ hook' = [hook EXCEPT !.loading = TRUE,
                            !.running = @ \cup {Len(calls) + 1}]

\* fetch resolves with a response: createSession goes on to read its body.
FetchResponds(k, resp) ==
    /\ calls[k].at = "fetch"
    /\ calls' = [calls EXCEPT ![k].resp = resp,
                              ![k].at = IF Ok(resp) THEN "json" ELSE "text"]
    /\ UNCHANGED <<hasWindow, hook, CONFIG, initError, globals, loader, scripts>>

\* Mutant: a transport failure is retried once before it is reported.
FetchFailsRetry(k) ==
    /\ calls[k].at = "fetch"
    /\ calls' = [calls EXCEPT ![k] =
           IF Len(calls[k].requests) < 2
           THEN [@ EXCEPT !.requests = Append(@, @[1])]
           ELSE SettleSession(@, Rejected(NetworkError))]
    /\ UNCHANGED <<hasWindow, hook, CONFIG, initError, globals, loader, scripts>>

\* fetch rejects: the transport failed.
FetchFails(k) ==
    /\ calls[k].at = "fetch"
    /\ calls' = [calls EXCEPT ![k] = SettleSession(@, Rejected(NetworkError))]
    /\ UNCHANGED <<hasWindow, hook, CONFIG, initError, globals, loader, scripts>>

\* resp.text() or resp.json() has read the body.
BodyRead(k) ==
    /\ calls[k].at \in {"text", "json"}
    /\ calls' = [calls EXCEPT ![k] =
           SettleSession(@, IF calls[k].at = "text"
                            THEN Rejected(SessionCreateError(calls[k].resp))
                            ELSE SessionOutcome(calls[k].resp))]
    /\ UNCHANGED <<hasWindow, hook, CONFIG, initError, globals, loader, scripts>>

\* The body stream fails: resp.text() or resp.json() rejects.
BodyReadFails(k) ==
    /\ calls[k].at \in {"text", "json"}
    /\ calls' = [calls EXCEPT ![k] =
           SettleSession(@, IF calls[k].at = "text"
                            THEN Rejected(RawError(<<"body stream failed">>))
                            ELSE Rejected(InvalidJsonError(calls[k].resp)))]
    /\ UNCHANGED <<hasWindow, hook, CONFIG, initError, globals, loader, scripts>>

\* Mutant: the outcome of a load is dropped when every call that waited for
\* it has failed already.
SettleLoaderUnlessAbandoned(url, outcome) ==
    IF \A k \in DOMAIN calls :
          calls[k].scriptUrl = url => calls[k].result.st = "rejected"
    THEN UNCHANGED <<loader, calls>>
    ELSE /\ loader' = [loader EXCEPT ![url] =
                           IF @.st = "pending" THEN outcome ELSE @]
         /\ calls' = [k \in DOMAIN calls |->
                         IF calls[k].scriptUrl = url
                            /\ calls[k].widget.st = "pending"
                         THEN SettleWidget(calls[k], outcome)
                         ELSE calls[k]]

\* The loader entry of `url` settles, and with it every promise following it.
SettleLoader(url, outcome) ==
    /\ loader' = [loader EXCEPT ![url] =
                      IF @.st = "pending" THEN outcome ELSE @]
    /\ calls' = [k \in DOMAIN calls |->
                    IF calls[k].scriptUrl = url /\ calls[k].widget.st = "pending"
                    THEN SettleWidget(calls[k], outcome)
                    ELSE calls[k]]

\* Mutant: onload resolves with whatever window[globalName] holds.
ScriptOnloadNoCheck(url, published) ==
    /\ scripts[url].loading
    /\ scripts' = [scripts EXCEPT ![url].loading = FALSE,
                                  ![url].event = "load"]
    /\ globals' = [n \in GlobalNames |->
                      IF n \in published THEN Fn(n) ELSE globals[n]]
    /\ SettleLoader(url, Fulfilled(globals'[scripts[url].globalName]))
    /\ UNCHANGED <<hasWindow, hook, CONFIG, initError>>

\* script.onload, after the script ran: it published its widget under the
\* names `published` (under none, when it is some other script).
ScriptOnload(url, published) ==
    /\ scripts[url].loading
    /\ scripts' = [scripts EXCEPT ![url].loading = FALSE,
                                  ![url].event = "load"]
    /\ globals' = [n \in GlobalNames |->
                      IF n \in published THEN Fn(n) ELSE globals[n]]
    /\ SettleLoader(url,
           IF IsFunction(globals'[scripts[url].globalName])
           THEN Fulfilled(globals'[scripts[url].globalName])
           ELSE Rejected(EscrowCheckoutError(
                    <<"Escrow checkout script loaded, but window.",
                      scripts[url].globalName[1], " is not a function.">>,
                    "WIDGET_LOAD", NoStatus)))
    /\ UNCHANGED <<hasWindow, hook, CONFIG, initError>>

\* script.onerror
ScriptOnerror(url) ==
    /\ scripts[url].loading
    /\ scripts' = [scripts EXCEPT ![url].loading = FALSE,
                                  ![url].event = "error"]
    /\ SettleLoader(url,
           Rejected(EscrowCheckoutError(
               <<"Failed to load escrow checkout script: ", url[1]>>,
               "WIDGET_LOAD", NoStatus)))
    /\ UNCHANGED <<hasWindow, hook, CONFIG, initError, globals>>

\* The page itself (a script tag of its own) publishes a widget.
PagePublishes(name) ==
    /\ hasWindow
    /\ ~IsFunction(globals[name])
    /\ globals' = [globals EXCEPT ![name] = Fn(name)]
    /\ UNCHANGED <<hasWindow, hook, CONFIG, initError, loader, scripts, calls>>

\* pay resumes after `await Promise.all([...])` rejected: it rejects too.
PayRejects(k) ==
    /\ calls[k].result.st = "pending"
    /\ calls[k].all.st = "rejected"
    /\ calls' = [calls EXCEPT ![k].result = Rejected(calls[k].all.err)]
    /\ UNCHANGED <<hasWindow, hook, CONFIG, initError, globals, loader, scripts>>

\* pay resumes with both values and calls widget({...}), which returns or
\* throws.
PayInvokesWidget(k, throws) ==
    /\ calls[k].result.st = "pending"
    /\ calls[k].all.st = "fulfilled"
    /\ calls' = [calls EXCEPT
           ![k].invoked = Append(@,
               [fn |-> calls[k].widget.value,
                options |-> WidgetOptions(calls[k].session.value,
                                          calls[k].input, CONFIG)]),
           ![k].result = IF throws
                         THEN Rejected(RawError(<<"widget threw">>))
                         ELSE Fulfilled(Undefined)]
    /\ UNCHANGED <<hasWindow, hook, CONFIG, initError, globals, loader, scripts>>

\* The props of the EscrowCheckoutButton on the page: the three required
\* fields, and no `disabled`.
ButtonProps == [input |-> PlainInput, disabled |-> Undefined]

\* The `disabled` attribute the button renders: disabled || loading || !ready.
ButtonDisabled ==
    \/ ButtonProps.disabled.type = "boolean" /\ ButtonProps.disabled.val
    \/ hook.loading
    \/ ~hook.ready

\* The user clicks the button.  A disabled button dispatches no click event;
\* an enabled one runs handleClick, which calls the hook's pay.
ButtonClick ==
    IF ButtonDisabled
    THEN UNCHANGED vars
    ELSE hookPay(ButtonProps.input)

\* The hook's pay resumes after `await corePay(input)`: it records the
\* outcome and, in its finally block, sets loading to false.
HookResumes(k) ==
    /\ k \in hook.running
    /\ calls[k].result.st # "pending"
    /\ hook' = [ready |-> IF calls[k].result.st = "fulfilled"
                          THEN TRUE ELSE hook.ready,
                error |-> IF calls[k].result.st = "fulfilled"
                          THEN NoError ELSE calls[k].result.err,
                loading |-> FALSE,
                running |-> hook.running \ {k}]
    /\ UNCHANGED <<hasWindow, CONFIG, initError, globals, loader, scripts,
                   calls>>

\* A pay call whose awaited promise has settled and which has not resumed
\* yet: its continuation is a queued microtask.
Resumable(k) ==
    \/ calls[k].result.st = "pending" /\ calls[k].all.st # "pending"
    \/ k \in hook.running /\ calls[k].result.st # "pending"

\* The microtask queue is empty.  Queued continuations run before the next
\* task (an application call, a network or script event) starts.
QueueEmpty == \A k \in DOMAIN calls : ~Resumable(k)

Next ==
    \/ QueueEmpty /\ \E config \in InitInputs : initEscrowCheckout(config)
    \/ QueueEmpty /\ \E input \in PayInputs : pay(input)
    \/ QueueEmpty /\ \E k \in DOMAIN calls, resp \in Responses :
                        FetchResponds(k, resp)
    \/ QueueEmpty /\ \E k \in DOMAIN calls : FetchFails(k)
    \/ QueueEmpty /\ \E k \in DOMAIN calls : BodyRead(k)
    \/ QueueEmpty /\ \E k \in DOMAIN calls : BodyReadFails(k)
    \/ QueueEmpty /\ \E url \in ScriptUrls, name \in GlobalNames :
                        \E published \in {{}, {name}} :
                            ScriptOnload(url, published)
    \/ QueueEmpty /\ \E url \in ScriptUrls : ScriptOnerror(url)
    \/ QueueEmpty /\ \E name \in GlobalNames : PagePublishes(name)
    \/ \E k \in DOMAIN calls : PayRejects(k)
    \/ \E k \in DOMAIN calls, throws \in BOOLEAN : PayInvokesWidget(k, throws)

Spec == Init /\ [][Next]_vars

(***************************************************************************)
(* The runs of one pay call, over the wider input sets.                    *)
(***************************************************************************)
NextSingle ==
    \/ QueueEmpty /\ \E config \in AllInitInputs : initEscrowCheckout(config)
    \/ QueueEmpty /\ calls = <<>> /\ \E input \in AllPayInputs : pay(input)
    \/ QueueEmpty /\ \E k \in DOMAIN calls, resp \in AllResponses :
                        FetchResponds(k, resp)
    \/ QueueEmpty /\ \E k \in DOMAIN calls : FetchFails(k)
    \/ QueueEmpty /\ \E k \in DOMAIN calls : BodyRead(k)
    \/ QueueEmpty /\ \E k \in DOMAIN calls : BodyReadFails(k)
    \/ QueueEmpty /\ \E url \in ScriptUrls, name \in GlobalNames :
                        \E published \in {{}, {name}} :
                            ScriptOnload(url, published)
    \/ QueueEmpty /\ \E url \in ScriptUrls : ScriptOnerror(url)
    \/ QueueEmpty /\ \E name \in GlobalNames : PagePublishes(name)
    \/ \E k \in DOMAIN calls : PayRejects(k)
    \/ \E k \in DOMAIN calls, throws \in BOOLEAN : PayInvokesWidget(k, throws)

SpecSingle == Init /\ [][NextSingle]_vars

(***************************************************************************)
(* The runs of an application that pays through the hook.                  *)
(***************************************************************************)
HookInitInputs == {InitConfig(Str(KEY_TEST), Undefined, Undefined, Undefined)}

NextHook ==
    \/ QueueEmpty /\ \E config \in HookInitInputs :
                        initEscrowCheckout(config)
    \/ QueueEmpty /\ \E input \in PayInputs : hookPay(input)
    \/ QueueEmpty /\ \E k \in DOMAIN calls, resp \in Responses :
                        FetchResponds(k, resp)
    \/ QueueEmpty /\ \E k \in DOMAIN calls : FetchFails(k)
    \/ QueueEmpty /\ \E k \in DOMAIN calls : BodyRead(k)
    \/ QueueEmpty /\ \E k \in DOMAIN calls : BodyReadFails(k)
    \/ QueueEmpty /\ \E url \in ScriptUrls, name \in GlobalNames :
                        \E published \in {{}, {name}} :
                            ScriptOnload(url, published)
    \/ QueueEmpty /\ \E url \in ScriptUrls : ScriptOnerror(url)
    \/ QueueEmpty /\ \E name \in GlobalNames : PagePublishes(name)
    \/ \E k \in DOMAIN calls : PayRejects(k)
    \/ \E k \in DOMAIN calls, throws \in BOOLEAN : PayInvokesWidget(k, throws)
    \/ \E k \in DOMAIN calls : HookResumes(k)

SpecHook == Init /\ [][NextHook]_vars

(***************************************************************************)
(* The runs of a page that holds an EscrowCheckoutButton beside application *)
(* code that calls pay itself.  The hook instance is the button's own, so  *)
(* the click is the only caller of the hook's pay; HookResumes, which can  *)
(* follow such a call only, is for the runs of NextHook.                   *)
(*                                                                         *)
(* Fairness: the runtime runs queued continuations, and the environment    *)
(* answers: a request sent gets a response or a transport error, a body    *)
(* being read ends, a script element injected fires load or error.  The    *)
(* user and the application are not obliged to do anything.                *)
(***************************************************************************)
NextPage ==
    \/ QueueEmpty /\ \E config \in HookInitInputs : initEscrowCheckout(config)
    \/ QueueEmpty /\ \E input \in PayInputs : pay(input)
    \/ QueueEmpty /\ ButtonClick
    \/ QueueEmpty /\ \E k \in DOMAIN calls, resp \in Responses :
                        FetchResponds(k, resp)
    \/ QueueEmpty /\ \E k \in DOMAIN calls : FetchFails(k)
    \/ QueueEmpty /\ \E k \in DOMAIN calls : BodyRead(k)
    \/ QueueEmpty /\ \E k \in DOMAIN calls : BodyReadFails(k)
    \/ QueueEmpty /\ \E url \in ScriptUrls, name \in GlobalNames :
                        \E published \in {{}, {name}} :
                            ScriptOnload(url, published)
    \/ QueueEmpty /\ \E url \in ScriptUrls : ScriptOnerror(url)
    \/ QueueEmpty /\ \E name \in GlobalNames : PagePublishes(name)
    \/ \E k \in DOMAIN calls : PayRejects(k)
    \/ \E k \in DOMAIN calls, throws \in BOOLEAN : PayInvokesWidget(k, throws)

\* A request in flight is answered, or fails in transport.
FetchEnds ==
    QueueEmpty /\ \E k \in DOMAIN calls :
        \/ \E resp \in Responses : FetchResponds(k, resp)
        \/ FetchFails(k)

\* A body being read ends, or the read fails.
BodyEnds ==
    QueueEmpty /\ \E k \in DOMAIN calls : BodyRead(k) \/ BodyReadFails(k)

\* A script element that is loading fires load or error.
ScriptEnds ==
    QueueEmpty /\ \E url \in ScriptUrls :
        \/ ScriptOnerror(url)
        \/ \E name \in GlobalNames : \E published \in {{}, {name}} :
              ScriptOnload(url, published)

\* A queued continuation of pay runs.
MicrotaskRuns ==
    \E k \in DOMAIN calls :
        PayRejects(k) \/ \E throws \in BOOLEAN : PayInvokesWidget(k, throws)

Fairness ==
    /\ WF_vars(FetchEnds)
    /\ WF_vars(BodyEnds)
    /\ WF_vars(ScriptEnds)
    /\ WF_vars(MicrotaskRuns)

SpecPage == Init /\ [][NextPage]_vars /\ Fairness

(***************************************************************************)
(* Properties.                                                             *)
(***************************************************************************)

\* A pay call that passed its preconditions: it reached Promise.all.
Started(c) == c.requests # <<>>

\* The call a step of pay adds.
NewCall == calls'[Len(calls')]
PayStep == Len(calls') = Len(calls) + 1

\* C1: in every reachable state, for every script URL, at most one script
\* element with that URL has been injected.
C1_AtMostOneInjectionPerUrl == \A url \in ScriptUrls : scripts[url].count <= 1

\* Two pay calls under one URL, one script element, the load settled.
C1_Witness ==
    /\ Len(calls) = 2
    /\ Started(calls[1]) /\ Started(calls[2])
    /\ calls[1].scriptUrl = calls[2].scriptUrl
    /\ scripts[calls[1].scriptUrl].count = 1
    /\ loader[calls[1].scriptUrl].st = "rejected"

\* C2: any two pay calls under the same script URL (so also two that are in
\* flight together) get the same load outcome: once both load branches are
\* settled, either both hold the same entry point or both failed with
\* WIDGET_LOAD; never an entry point for one and a failure for the other.
C2_SharedLoadOutcome ==
    \A j, k \in DOMAIN calls :
        (/\ Started(calls[j]) /\ Started(calls[k])
         /\ calls[j].scriptUrl = calls[k].scriptUrl
         /\ calls[j].widget.st # "pending"
         /\ calls[k].widget.st # "pending")
        => /\ calls[j].widget = calls[k].widget
           /\ calls[j].widget.st = "rejected"
                 => calls[j].widget.err.code = "WIDGET_LOAD"

\* Two calls in flight together whose shared load has just failed.
C2_Witness ==
    /\ Len(calls) = 2
    /\ calls[1].scriptUrl = calls[2].scriptUrl
    /\ calls[1].result.st = "pending" /\ calls[2].result.st = "pending"
    /\ calls[1].session.st = "pending" /\ calls[2].session.st = "pending"
    /\ calls[1].widget.st = "rejected" /\ calls[2].widget.st = "rejected"

\* A required field that is a string with a character that is not white space.
NonBlank(v) ==
    v.type = "string" /\ \E i \in 1..Len(v.val) : ~IsSpace(v.val[i])

FailsWith(c, code) ==
    /\ c.result.st = "rejected"
    /\ c.result.err.name = "EscrowCheckoutError"
    /\ c.result.err.code = code

\* C3: every pay call fails with the code of the first failing check in the
\* order window, configuration, paymentToken, reference, redirectUrl (the
\* three INVALID_INPUT errors told apart by the field their message names),
\* and goes on to Promise.all when no check fails.
C3_FirstFailingCheckWins ==
    [][PayStep =>
        LET in == NewCall.input
        IN  IF ~hasWindow THEN FailsWith(NewCall, "BROWSER_ONLY")
            ELSE IF ~CONFIG.set THEN FailsWith(NewCall, "NOT_INITIALIZED")
            ELSE IF ~NonBlank(in.paymentToken)
            THEN /\ FailsWith(NewCall, "INVALID_INPUT")
                 /\ NewCall.result.err.message[2] = "paymentToken"
            ELSE IF ~NonBlank(in.reference)
            THEN /\ FailsWith(NewCall, "INVALID_INPUT")
                 /\ NewCall.result.err.message[2] = "reference"
            ELSE IF ~NonBlank(in.redirectUrl)
            THEN /\ FailsWith(NewCall, "INVALID_INPUT")
                 /\ NewCall.result.err.message[2] = "redirectUrl"
            ELSE NewCall.result.st = "pending" /\ Started(NewCall)]_vars

\* A configured call with a valid token and both other fields blank: it
\* failed on reference.
C3_Witness ==
    /\ calls # <<>>
    /\ NonBlank(calls[1].input.paymentToken)
    /\ ~NonBlank(calls[1].input.reference)
    /\ ~NonBlank(calls[1].input.redirectUrl)
    /\ FailsWith(calls[1], "INVALID_INPUT")
    /\ calls[1].result.err.message[2] = "reference"

\* C4 as stated: while no initEscrowCheckout call has succeeded, every pay
\* call made has failed with NOT_INITIALIZED.
C4_AlwaysNotInitialized ==
    ~CONFIG.set => \A k \in DOMAIN calls : FailsWith(calls[k], "NOT_INITIALIZED")

\* C4, amended: where `window` is defined, while no initEscrowCheckout call
\* has succeeded, every pay call made has failed with NOT_INITIALIZED,
\* whatever its input.
C4_NotInitializedInBrowser ==
    (hasWindow /\ ~CONFIG.set)
        => \A k \in DOMAIN calls : FailsWith(calls[k], "NOT_INITIALIZED")

\* A valid input, no configuration, in the browser.
C4_Witness ==
    /\ hasWindow /\ ~CONFIG.set
    /\ calls # <<>>
    /\ calls[1].input = PlainInput
    /\ FailsWith(calls[1], "NOT_INITIALIZED")

\* C5: once the loader entry of a URL is a failed load, it stays that failed
\* load, no further script element is injected for the URL, and the load
\* branch of every pay call made under that URL fails with WIDGET_LOAD.
C5_FailureStaysCached ==
    [][\A url \in ScriptUrls :
          loader[url].st = "rejected"
          => /\ loader'[url] = loader[url]
             /\ scripts'[url].count = scripts[url].count
             /\ (PayStep /\ Started(NewCall) /\ NewCall.scriptUrl = url)
                   => /\ NewCall.widget.st = "rejected"
                      /\ NewCall.widget.err.code = "WIDGET_LOAD"]_vars

\* A second pay call made after the load failed and after the page published
\* the widget itself: its load branch failed at once.
C5_Witness ==
    /\ Len(calls) = 2
    /\ calls[1].result.st = "rejected"
    /\ calls[1].failed = <<"widget">>
    /\ Started(calls[2])
    /\ calls[2].scriptUrl = calls[1].scriptUrl
    /\ calls[2].failed = <<"widget">>
    /\ calls[2].session.st = "pending"
    /\ scripts[calls[2].scriptUrl].count = 1
    /\ \A n \in GlobalNames : IsFunction(globals[n])

\* What loadWidget does when window[globalName] is a function.
TakesGlobal ==
    /\ NewCall.widget = Fulfilled(globals[CONFIG.globalName])
    /\ loader'[CONFIG.scriptUrl] = Fulfilled(globals[CONFIG.globalName])
    /\ scripts' = scripts

\* C6 as stated: whenever window[globalName] is a function when loadWidget
\* is called, loadWidget returns it, caches it under the script URL and
\* injects nothing, whatever the cache holds for that URL.
C6_GlobalBeforeCache ==
    [][(PayStep /\ Started(NewCall) /\ IsFunction(globals[CONFIG.globalName]))
          => TakesGlobal]_vars

\* C6, amended: the cache is consulted first.  With no entry for the script
\* URL and window[globalName] a function, loadWidget returns that function,
\* caches it under the URL and injects nothing; with an entry (pending,
\* resolved or failed), it returns the entry and changes nothing, whatever
\* window[globalName] is.
C6_GlobalAfterCache ==
    [][(PayStep /\ Started(NewCall))
          => IF loader[CONFIG.scriptUrl].st # "absent"
             THEN /\ NewCall.widget = loader[CONFIG.scriptUrl]
                  /\ loader' = loader
                  /\ scripts' = scripts
             ELSE IsFunction(globals[CONFIG.globalName]) => TakesGlobal]_vars

\* A call that took the widget from window[globalName]: its load branch is
\* resolved, the entry is cached and no script was injected for its URL.
C6_Witness ==
    /\ calls # <<>>
    /\ Started(calls[1])
    /\ calls[1].widget.st = "fulfilled"
    /\ loader[calls[1].scriptUrl] = calls[1].widget
    /\ scripts[calls[1].scriptUrl].count = 0

\* C7 as stated: a pay call that completed invoked the widget exactly once,
\* one that failed never did, and the widget is invoked only once the session
\* and the entry point are both there.
C7_OnceOrNever ==
    \A k \in DOMAIN calls :
        /\ calls[k].result.st = "fulfilled" => Len(calls[k].invoked) = 1
        /\ calls[k].result.st = "rejected" => Len(calls[k].invoked) = 0
        /\ Len(calls[k].invoked) > 0
              => /\ calls[k].session.st = "fulfilled"
                 /\ calls[k].widget.st = "fulfilled"

\* C7, amended: a pay call that completed invoked the widget exactly once; one
\* that failed before the invocation (a precondition, the session or the
\* widget load) never did; one that failed because the invocation itself
\* threw made that one invocation; no call invokes it twice, and only once
\* the session and the entry point are both there.
C7_OnceAfterJoin ==
    \A k \in DOMAIN calls :
        /\ Len(calls[k].invoked) <= 1
        /\ calls[k].result.st = "fulfilled" => Len(calls[k].invoked) = 1
        /\ calls[k].result.st = "pending" => Len(calls[k].invoked) = 0
        /\ (calls[k].result.st = "rejected" /\ calls[k].all.st # "fulfilled")
              => Len(calls[k].invoked) = 0
        /\ (calls[k].result.st = "rejected" /\ calls[k].all.st = "fulfilled")
              => /\ Len(calls[k].invoked) = 1
                 /\ calls[k].result.err.name = "Error"
        /\ Len(calls[k].invoked) > 0
              => /\ calls[k].session.st = "fulfilled"
                 /\ calls[k].widget.st = "fulfilled"

\* Of two calls, one completed after one invocation, the other failed on its
\* session with the entry point resolved, and invoked nothing.
C7_Witness ==
    /\ Len(calls) = 2
    /\ calls[1].result.st = "fulfilled" /\ Len(calls[1].invoked) = 1
    /\ calls[2].result.st = "rejected" /\ Len(calls[2].invoked) = 0
    /\ calls[2].widget.st = "fulfilled"
    /\ calls[2].failed = <<"session">>

BranchError(c, branch) ==
    IF branch = "session" THEN c.session.err ELSE c.widget.err

\* C8: a pay call with a failed branch fails with the error of the branch
\* that failed first, and with that one only: Promise.all is rejected with it
\* as soon as that branch fails, whether or not the other branch is still
\* pending or fails later, and pay rejects with it before the next task.
C8_FirstFailureWins ==
    \A k \in DOMAIN calls :
        (Started(calls[k]) /\ calls[k].failed # <<>>)
        => /\ calls[k].all = Rejected(BranchError(calls[k], calls[k].failed[1]))
           /\ calls[k].result.st # "fulfilled"
           /\ calls[k].result.st = "rejected"
                 => calls[k].result.err
                       = BranchError(calls[k], calls[k].failed[1])
           /\ QueueEmpty => calls[k].result.st = "rejected"

\* Both branches failed, the session first while the load was pending: pay
\* failed with the session's error, not the later WIDGET_LOAD.
C8_Witness ==
    /\ calls # <<>>
    /\ calls[1].failed = <<"session", "widget">>
    /\ calls[1].result = Rejected(calls[1].session.err)
    /\ calls[1].widget.err.code = "WIDGET_LOAD"
    /\ calls[1].session.err.code = "SESSION_CREATE"

\* C9: every error pay rejects with is an EscrowCheckoutError with one of the
\* seven codes.
C9_OnlyTaxonomyErrors ==
    \A k \in DOMAIN calls :
        calls[k].result.st = "rejected"
        => /\ calls[k].result.err.name = "EscrowCheckoutError"
           /\ calls[k].result.err.code \in ErrorCodes

HasExtra(input, name) ==
    input.extra.type = "object" /\ name \in DOMAIN input.extra.fields

\* The session property of the body the endpoint answered the call with.
SessionOfBody(c) == Get(JSONParse(c.resp.body), "session")

\* C10 as stated: on every successful pay, the session the widget received
\* is the session of the endpoint's response to that call.
C10_SessionForwarded ==
    \A k \in DOMAIN calls :
        calls[k].result.st = "fulfilled"
        => calls[k].invoked[1].options.session = SessionOfBody(calls[k])

\* C10, amended: on every successful pay whose extra has no `session` field,
\* the session the widget received is the session of the endpoint's response
\* to that call.
C10_SessionForwardedUnlessOverridden ==
    \A k \in DOMAIN calls :
        (calls[k].result.st = "fulfilled" /\ ~HasExtra(calls[k].input, "session"))
        => calls[k].invoked[1].options.session = SessionOfBody(calls[k])

\* A successful pay without extra, answered 201 with session "s2".
C10_Witness ==
    /\ calls # <<>>
    /\ calls[1].result.st = "fulfilled"
    /\ calls[1].input = PlainInput
    /\ calls[1].resp = Response(201, BODY_SESSION_2)
    /\ calls[1].invoked[1].options.session = Str(<<"s2">>)

\* The option names pay itself sets.
BuiltIn ==
    {"session", "logoUrl", "brand", "callback", "onClose", "customerId",
     "publicKey"}

\* C11: on every successful pay, the options the widget received hold every
\* field of the caller's extra with the caller's value, also where the field
\* has the name of a built-in option; the built-in options extra does not
\* name are all there.
C11_ExtraOverrides ==
    \A k \in DOMAIN calls :
        calls[k].result.st = "fulfilled"
        => LET options == calls[k].invoked[1].options
               in == calls[k].input
           IN  /\ BuiltIn \subseteq DOMAIN options
               /\ in.extra.type = "object"
                     => \A n \in DOMAIN in.extra.fields :
                           /\ n \in DOMAIN options
                           /\ options[n] = in.extra.fields[n]

\* A successful pay whose extra named all seven built-in options and a new
\* one: the widget got extra's brand, not the call's, and an undefined
\* customerId in place of the call's.
C11_Witness ==
    /\ calls # <<>>
    /\ calls[1].result.st = "fulfilled"
    /\ BuiltIn \subseteq DOMAIN calls[1].input.extra.fields
    /\ calls[1].input.brand = Str(<<"Acme">>)
    /\ calls[1].invoked[1].options.brand = Str(<<"Other">>)
    /\ calls[1].invoked[1].options.customerId = Undefined
    /\ calls[1].invoked[1].options.theme = Str(<<"dark">>)

\* C12: a pay call sends one session request when it passes validation (none
\* when it does not), and no later step of any kind (a transport failure, a
\* response of any status, a body that cannot be read, a widget load that
\* fails) adds a request to a call.
C12_OneRequestPerCall ==
    [][/\ \A k \in DOMAIN calls : calls'[k].requests = calls[k].requests
       /\ PayStep
            => Len(NewCall.requests) =
                  IF /\ hasWindow /\ CONFIG.set
                     /\ NonBlank(NewCall.input.paymentToken)
                     /\ NonBlank(NewCall.input.reference)
                     /\ NonBlank(NewCall.input.redirectUrl)
                  THEN 1 ELSE 0]_vars

\* One call failed on the transport, the other on a non-success status after
\* its widget load had failed: each has sent its one request.
C12_Witness ==
    /\ Len(calls) = 2
    /\ FailsWith(calls[1], "NETWORK")
    /\ calls[2].failed = <<"widget", "session">>
    /\ calls[2].session.err.code = "SESSION_CREATE"
    /\ FailsWith(calls[2], "WIDGET_LOAD")
    /\ Len(calls[1].requests) = 1 /\ Len(calls[2].requests) = 1

\* A call whose session branch has settled on a response that is not ok.
SettledNotOk(c) ==
    /\ Started(c) /\ c.at = "done"
    /\ c.resp # NoResponse /\ ~Ok(c.resp)

\* "Failed to create session (HTTP <status>)."
GenericMessage(status) ==
    <<"Failed to create session (HTTP ", ToString(status), ").">>

\* C13: for every response with a non-success status s, the session branch
\* fails with SESSION_CREATE carrying status s, and when the body is an object
\* with a string message m, the error's message is m.
C13_SessionCreateWithStatus ==
    \A k \in DOMAIN calls :
        SettledNotOk(calls[k])
        => /\ calls[k].session.st = "rejected"
           /\ calls[k].session.err.name = "EscrowCheckoutError"
           /\ calls[k].session.err.code = "SESSION_CREATE"
           /\ calls[k].session.err.status = <<calls[k].resp.status>>
           /\ Get(JSONParse(calls[k].resp.body), "message").type = "string"
                 => calls[k].session.err.message
                       = Get(JSONParse(calls[k].resp.body), "message").val

\* C14: for a non-success status, when the body does not parse or parses
\* without a message field, the message of the SESSION_CREATE error is the
\* generic text, never text of the body.
C14_GenericMessage ==
    \A k \in DOMAIN calls :
        (/\ SettledNotOk(calls[k])
         /\ calls[k].session.err.code = "SESSION_CREATE"
         /\ \/ ~JSONParse(calls[k].resp.body).ok
            \/ "message" \notin DOMAIN JSONParse(calls[k].resp.body).fields)
        => calls[k].session.err.message = GenericMessage(calls[k].resp.status)

\* The SESSION_RESPONSE error of a response with this status.
IsSessionResponseError(promise, status) ==
    /\ promise.st = "rejected"
    /\ promise.err.name = "EscrowCheckoutError"
    /\ promise.err.code = "SESSION_RESPONSE"
    /\ promise.err.status = <<status>>

\* C15: for a response with a success status, the session branch fails with
\* SESSION_RESPONSE carrying that status whenever the body does not parse or
\* parses to something without a session field; it succeeds only when the
\* parsed body has a session field, and fails in no other way.
C15_SessionResponseOnBadBody ==
    \A k \in DOMAIN calls :
        (/\ Started(calls[k]) /\ calls[k].at = "done"
         /\ calls[k].resp # NoResponse /\ Ok(calls[k].resp))
        => LET body == JSONParse(calls[k].resp.body)
               status == calls[k].resp.status
           IN  /\ (~body.ok \/ "session" \notin DOMAIN body.fields)
                     => IsSessionResponseError(calls[k].session, status)
               /\ calls[k].session.st = "fulfilled"
                     => /\ body.ok
                        /\ "session" \in DOMAIN body.fields
                        /\ calls[k].session.value = body.fields.session
               /\ calls[k].session.st = "rejected"
                     => IsSessionResponseError(calls[k].session, status)

\* A 200 response with the body {}: pay failed with SESSION_RESPONSE, status
\* 200.
C15_Witness ==
    /\ calls # <<>>
    /\ calls[1].resp = Response(200, BODY_OBJECT)
    /\ IsSessionResponseError(calls[1].session, 200)
    /\ FailsWith(calls[1], "SESSION_RESPONSE")

IsWidgetLoadError(promise) ==
    /\ promise.st = "rejected"
    /\ promise.err.name = "EscrowCheckoutError"
    /\ promise.err.code = "WIDGET_LOAD"

\* The script element of `url` fires its load or error event in this step.
EventFires(url) == scripts[url].loading /\ ~scripts'[url].loading

\* C16: when the script element of a pending load fires its load event, the
\* load resolves with the function found under the global name the load was
\* started with, and fails with WIDGET_LOAD when there is none; when the
\* element fires its error event, the load fails with WIDGET_LOAD.  A pending
\* load is settled by such an event only, and a settled one never changes.
C16_LoadSettlesOnce ==
    [][\A url \in ScriptUrls :
          /\ EventFires(url)
                => /\ loader[url].st = "pending"
                   /\ scripts'[url].event \in {"load", "error"}
                   /\ LET fn == globals'[scripts[url].globalName]
                      IN  IF scripts'[url].event = "load" /\ IsFunction(fn)
                          THEN loader'[url] = Fulfilled(fn)
                          ELSE IsWidgetLoadError(loader'[url])
          /\ (loader[url].st = "pending" /\ ~EventFires(url))
                => loader'[url] = loader[url]
          /\ loader[url].st \in {"fulfilled", "rejected"}
                => loader'[url] = loader[url]]_vars

\* Two loads settled by events: one script loaded and published the
\* widget, the other failed to load.
C16_Witness ==
    /\ scripts[DEFAULT_SCRIPT_URL].event = "load"
    /\ loader[DEFAULT_SCRIPT_URL] = Fulfilled(Fn(DEFAULT_GLOBAL_NAME))
    /\ scripts[OTHER_SCRIPT_URL].event = "error"
    /\ IsWidgetLoadError(loader[OTHER_SCRIPT_URL])

\* `t` is `s` without its leading and trailing white space.
IsTrimOf(t, s) ==
    \E i, j \in 1..Len(s) :
        /\ t = SubSeq(s, i, j)
        /\ ~IsSpace(s[i]) /\ ~IsSpace(s[j])
        /\ \A m \in 1..Len(s) : (m < i \/ m > j) => IsSpace(s[m])

\* The input is a publicKey of the declared type (a string) or none at all.
KeyGiven(config) == config.publicKey.type \in {"string", "undefined"}

\* C17: a call of initEscrowCheckout with a missing, empty or white-space-only
\* publicKey throws INVALID_INPUT and stores nothing; with any other string it
\* throws nothing and stores the key trimmed.  Every session request then
\* carries the stored key and is routed by it, and the widget options carry
\* the stored key (unless extra names publicKey).
C17_KeyCheckedAndTrimmed ==
    [][/\ \A config \in AllInitInputs :
            (/\ CONFIG' # CONFIG \/ initError' # initError
             /\ KeyGiven(config) /\ initEscrowCheckout(config))
            => IF NonBlank(config.publicKey)
               THEN /\ initError' = NoError
                    /\ CONFIG'.set
                    /\ IsTrimOf(CONFIG'.publicKey, config.publicKey.val)
               ELSE /\ initError'.name = "EscrowCheckoutError"
                    /\ initError'.code = "INVALID_INPUT"
                    /\ CONFIG' = CONFIG
       /\ CONFIG'.set
            => /\ CONFIG'.publicKey # <<>>
               /\ ~IsSpace(Head(CONFIG'.publicKey))
               /\ ~IsSpace(CONFIG'.publicKey[Len(CONFIG'.publicKey)])
       /\ (PayStep /\ Started(NewCall))
            => /\ NewCall.requests[1].body.publicKey = Str(CONFIG.publicKey)
               /\ NewCall.requests[1].url[1] = ApiBaseUrl(CONFIG.publicKey)[1]
       /\ \A k \in DOMAIN calls :
            (Len(calls'[k].invoked) > Len(calls[k].invoked)
             /\ ~HasExtra(calls[k].input, "publicKey"))
            => calls'[k].invoked[1].options.publicKey = Str(CONFIG.publicKey)
      ]_vars

\* After initEscrowCheckout({publicKey: ' pk_live_1 '}): a successful pay whose
\* request and widget options carried 'pk_live_1' and which went to
\* production.
C17_Witness ==
    /\ CONFIG.set /\ CONFIG.publicKey = KEY_LIVE
    /\ calls # <<>>
    /\ calls[1].result.st = "fulfilled"
    /\ calls[1].requests[1].body.publicKey = Str(KEY_LIVE)
    /\ calls[1].requests[1].url[1] = LIVE_BASE_URL[1]
    /\ calls[1].invoked[1].options.publicKey = Str(KEY_LIVE)

\* `value` is the override `given`, or `default` when the call omits it (an
\* empty string counts as omitted).
OverrideOrDefault(value, given, default) ==
    IF given.type = "string" /\ given.val # <<>>
    THEN value = given.val
    ELSE value = default

\* C18: a successful initEscrowCheckout call made when a configuration is
\* already stored raises nothing and leaves the resolution of its own input
\* alone: its key trimmed, its overrides, and the default for every override
\* it omits, whatever the configuration before held.
C18_ReinitReplaces ==
    [][\A config \in InitInputs :
          (/\ CONFIG' # CONFIG \/ initError' # initError
           /\ CONFIG.set /\ NonBlank(config.publicKey)
           /\ initEscrowCheckout(config))
          => /\ initError' = NoError
             /\ CONFIG'.set
             /\ IsTrimOf(CONFIG'.publicKey, config.publicKey.val)
             /\ OverrideOrDefault(CONFIG'.scriptUrl, config.scriptUrlOverride,
                                  DEFAULT_SCRIPT_URL)
             /\ OverrideOrDefault(CONFIG'.globalName, config.globalName,
                                  DEFAULT_GLOBAL_NAME)
             /\ IF config.crossOrigin.type = "undefined"
                THEN CONFIG'.crossOrigin = DEFAULT_CROSS_ORIGIN
                ELSE CONFIG'.crossOrigin = config.crossOrigin.val]_vars

\* A pay call was started under the other script URL, so with the
\* configuration that overrides the URL and sets crossOrigin to ''; the
\* configuration now is that of initEscrowCheckout({publicKey}) alone.
C18_Witness ==
    /\ calls # <<>>
    /\ Started(calls[1])
    /\ calls[1].scriptUrl = OTHER_SCRIPT_URL
    /\ initError = NoError
    /\ CONFIG = [set |-> TRUE, publicKey |-> KEY_TEST,
                 scriptUrl |-> DEFAULT_SCRIPT_URL,
                 globalName |-> DEFAULT_GLOBAL_NAME,
                 crossOrigin |-> DEFAULT_CROSS_ORIGIN]

\* The key begins with "pk_live_".
BeginsLive(key) ==
    /\ Len(key) >= 8
    /\ key[1] = "p" /\ key[2] = "k" /\ key[3] = "_" /\ key[4] = "l"
    /\ key[5] = "i" /\ key[6] = "v" /\ key[7] = "e" /\ key[8] = "_"

C20_LoadingWhileRunning == hook.loading <=> (hook.running # {})

\* The button is enabled: a click runs handleClick and so calls pay.
ButtonEnabled == ~ButtonDisabled

\* C21: starting from the button's initial state, the page comes to a state
\* in which the button is enabled and a click calls pay.
C21_ButtonGetsEnabled == <>ButtonEnabled

\* The button is disabled in every reachable state, whatever the application
\* and the environment do: ready is set by a successful call of the hook's
\* pay only, and the click that would make that call needs ready.
C21_ButtonNeverEnabled == ButtonDisabled /\ hook = HookInit

FailedOnBranch(c) ==
    Started(c) /\ c.result.st = "rejected" /\ c.all.st = "rejected"

\* C23: after a pay call has failed on one branch, its other branch still
\* runs to completion: the script event of its pending load settles the cache
\* entry and the call's load branch with it, its session request is still
\* answered and read, and a later pay call under the URL gets the cache entry;
\* the failed call keeps its error and never invokes the widget, whatever the
\* late outcome is.
C23_LateBranchCompletes ==
    [][\A k \in DOMAIN calls :
          FailedOnBranch(calls[k])
          => /\ calls'[k].result = calls[k].result
             /\ calls'[k].invoked = <<>>
             /\ (EventFires(calls[k].scriptUrl) /\ calls[k].widget.st = "pending")
                   => /\ loader'[calls[k].scriptUrl].st # "pending"
                      /\ calls'[k].widget = loader'[calls[k].scriptUrl]
             /\ (calls[k].at # "done" /\ calls'[k].at = "done")
                   => calls'[k].session.st # "pending"
             /\ (PayStep /\ Started(NewCall)
                 /\ NewCall.scriptUrl = calls[k].scriptUrl)
                   => /\ NewCall.widget = loader[calls[k].scriptUrl]
                      /\ scripts' = scripts]_vars

\* The first call failed on its session while its load was pending (the load
\* failed after it); the second call, made later under the same URL, got
\* that late outcome from the cache; neither invoked the widget.
C23_Witness ==
    /\ Len(calls) = 2
    /\ calls[1].failed = <<"session", "widget">>
    /\ calls[1].result = Rejected(calls[1].session.err)
    /\ calls[2].scriptUrl = calls[1].scriptUrl
    /\ calls[2].failed = <<"widget">>
    /\ calls[2].widget = loader[calls[1].scriptUrl]
    /\ calls[2].session.st = "fulfilled"
    /\ calls[1].invoked = <<>> /\ calls[2].invoked = <<>>

\* C24: a call of initEscrowCheckout (the one step that changes CONFIG or
\* initError) leaves the loader cache, the script elements and every pay call
\* as they are; and whatever CONFIG is by then, the load branch of a pay call
\* is the cache entry of the URL the call started under, so a call in flight
\* under the old URL gets that entry's outcome.
C24_InitLeavesCache ==
    [][/\ (CONFIG' # CONFIG \/ initError' # initError)
            => /\ loader' = loader
               /\ scripts' = scripts
               /\ calls' = calls
       /\ \A k \in DOMAIN calls' :
            Started(calls'[k])
            => calls'[k].widget = loader'[calls'[k].scriptUrl]]_vars

\* The first call is in flight under the old URL, its cache entry still the
\* pending load; after a re-initialization with another URL a second call
\* has injected that URL's script.
C24_Witness ==
    /\ Len(calls) = 2
    /\ calls[1].result.st = "pending"
    /\ calls[1].scriptUrl # CONFIG.scriptUrl
    /\ loader[calls[1].scriptUrl] = Pending
    /\ calls[1].widget = Pending
    /\ calls[2].scriptUrl = CONFIG.scriptUrl
    /\ scripts[calls[1].scriptUrl].count = 1
    /\ scripts[calls[2].scriptUrl].count = 1

\* C25: where every session request is answered or fails in transport, every
\* body read ends and every injected script fires load or error (the
\* fairness of SpecPage), every pay call made settles: it resolves or
\* rejects.
C25_EveryPaySettles ==
    \A k \in 1..MaxCalls :
        (k \in DOMAIN calls)
            ~> (k \in DOMAIN calls /\ calls[k].result.st # "pending")

\* A pay call is pending with nothing of the library left to run: its request
\* is unanswered, its script has fired no event, no continuation is queued.
\* Only the environment can move it on; the library has set no timer.
C25_Witness ==
    /\ calls # <<>>
    /\ calls[1].result.st = "pending"
    /\ calls[1].at = "fetch"
    /\ calls[1].widget = Pending
    /\ scripts[calls[1].scriptUrl].loading
    /\ QueueEmpty

\* C26: the publicKey in the options a pay call passes to the widget is the
\* publicKey of the session request of that call, also when
\* initEscrowCheckout is called with another key while the call is in flight.
C26_SameKeyInRequestAndOptions ==
    \A k \in DOMAIN calls :
        Len(calls[k].invoked) > 0
        => calls[k].invoked[1].options.publicKey
              = calls[k].requests[1].body.publicKey

\* C27: the callable a pay call invokes is the one published under the global
\* name of the configuration in force when the call started, also after a
\* re-initialization that keeps the script URL and changes the global name.
C27_InvokesConfiguredGlobal ==
    \A k \in DOMAIN calls :
        Len(calls[k].invoked) > 0
        => calls[k].invoked[1].fn = Fn(calls[k].globalName)

\* The call has failed one of the checks pay makes before Promise.all.
FailedPrecondition(c) ==
    /\ ~Started(c)
    /\ \/ FailsWith(c, "BROWSER_ONLY")
       \/ FailsWith(c, "NOT_INITIALIZED")
       \/ FailsWith(c, "INVALID_INPUT")

\* C28: a pay call that fails a precondition changes nothing but its own
\* result: the step sends no request, injects no script and leaves the loader
\* cache, the widget globals and the configuration as they are, and the call
\* never gets a request or a widget invocation afterwards.
C28_FailedPreconditionNoEffect ==
    [][/\ (PayStep /\ FailedPrecondition(NewCall))
            => /\ scripts' = scripts
               /\ loader' = loader
               /\ globals' = globals
               /\ CONFIG' = CONFIG /\ initError' = initError
               /\ \A k \in DOMAIN calls : calls'[k] = calls[k]
       /\ \A k \in DOMAIN calls' :
            FailedPrecondition(calls'[k])
            => /\ calls'[k].requests = <<>>
               /\ calls'[k].invoked = <<>>
               /\ calls'[k].at = "done"]_vars

\* A configured page where pay failed on redirectUrl: nothing was sent,
\* injected or cached.
C28_Witness ==
    /\ hasWindow /\ CONFIG.set
    /\ calls # <<>>
    /\ FailedPrecondition(calls[1])
    /\ calls[1].result.err.message[2] = "redirectUrl"
    /\ calls[1].requests = <<>> /\ calls[1].invoked = <<>>
    /\ \A url \in ScriptUrls :
          scripts[url].count = 0 /\ loader[url].st = "absent"

\* The last initEscrowCheckout call threw INVALID_INPUT.
InitRejected == initError # NoError /\ initError.code = "INVALID_INPUT"

\* C29: an initEscrowCheckout call without a usable publicKey throws
\* INVALID_INPUT and leaves CONFIG as it was; a pay call made after it runs
\* under the configuration stored before, or fails with NOT_INITIALIZED when
\* none was stored.
C29_RejectedInitKeepsConfig ==
    [][/\ \A config \in AllInitInputs :
            (/\ CONFIG' # CONFIG \/ initError' # initError
             /\ ~NonBlank(config.publicKey)
             /\ initEscrowCheckout(config))
            => InitRejected' /\ CONFIG' = CONFIG
       /\ (PayStep /\ InitRejected /\ hasWindow)
            => IF CONFIG.set
               THEN Started(NewCall)
                    => /\ NewCall.requests[1].body.publicKey
                            = Str(CONFIG.publicKey)
                       /\ NewCall.scriptUrl = CONFIG.scriptUrl
                       /\ NewCall.globalName = CONFIG.globalName
               ELSE FailsWith(NewCall, "NOT_INITIALIZED")]_vars

\* A valid configuration, then a rejected one, and a pay call that went
\* through with the key stored first.
C29_Witness ==
    /\ InitRejected
    /\ CONFIG.set /\ CONFIG.publicKey = KEY_LIVE
    /\ calls # <<>>
    /\ calls[1].result.st = "fulfilled"
    /\ calls[1].requests[1].body.publicKey = Str(KEY_LIVE)

====
